---- MODULE Spec2Model ----
(***************************************************************************)
(* uDSV: the delimited-text tokenizer parse(), the schema guesser schema() *)
(* and the conversion routine genToTypedFn() makes, as a state machine.  The repository holds two builds of them, *)
(* src/dist/uDSV.cjs.js ("dist") and src/src/uDSV.js ("src"); build says   *)
(* which one runs.  Where a definition names no build the two agree.       *)
(*                                                                         *)
(* A JavaScript string is a sequence of one-character strings.  A row is   *)
(* a sequence of fields; a slot of a sparse array that was never written   *)
(* is Hole.  A number argument left at its default null is None.  In the    *)
(* conversion routine a value is a cell [t, v]: its JavaScript type t and   *)
(* the text v that tells values of that type apart.                        *)
(***************************************************************************)
EXTENDS Integers, Sequences, FiniteSets, TLC

VARIABLES build, csvStr, schema, chunkSize, chunkLimit, maxCols, ps, limit, spc, ty

vars == <<build, csvStr, schema, chunkSize, chunkLimit, maxCols, ps, limit, spc, ty>>

(* ------------------------------ bounds --------------------------------- *)

\* longest text given to parse()
MaxLen == 5
\* longest text given to schema()
MaxSniffLen == 4
\* largest chunkSize (dist) or row limit (src) given to parse()
MaxChunkSize == 2
\* largest column count (schema.cols.names.length or _maxCols) given to parse()
MaxCols == 2
\* longest text given to schema() when it probes column types
MaxProbeLen == 6
\* largest sample limit given to schema()
MaxSample == 3
\* loop iterations of one parse() call followed before the run is cut off
MaxIter == 12

(* ---------------------------- characters ------------------------------- *)

comma == ","
quote == "\""
tab == "\t"
pipe == "|"
semi == ";"
LF == "\n"
CR == "\r"

\* what charCodeAt returns outside the string
NaN == "NaN"
\* the value of a variable nothing was assigned to (COL_DELIMS.find with no hit)
undefined == "undefined"
\* schema.quote when the text holds no quote character
null == "null"
\* a number argument left at null (chunkLimit = null, _maxCols = null)
None == -1
\* a slot of Array(n) that was never written
Hole == <<"<hole>">>

COL_DELIMS_reversed == <<comma, semi, pipe, tab>>

COL_DELIMS == <<tab, pipe, semi, comma>>

CHUNK_SIZE == 5000

(* ----------------------- JavaScript string methods --------------------- *)

Min(a, b) == IF a <= b THEN a ELSE b

Max(a, b) == IF a >= b THEN a ELSE b

SetMin(S) == CHOOSE i \in S : \A j \in S : i <= j

\* s.charCodeAt(pos)
CharCodeAt(s, pos) == IF pos >= 0 /\ pos < Len(s) THEN s[pos + 1] ELSE NaN

\* a === b on two char codes: NaN is equal to nothing, itself included
SameCode(a, b) == a # NaN /\ b # NaN /\ a = b

\* d occurs in s at 0-based index i
StartsAt(s, d, i) == i + Len(d) <= Len(s) /\ \A k \in 1..Len(d) : s[i + k] = d[k]

\* s.indexOf(d, from): from is clamped to 0..s.length, -1 when d is not found
IndexOf(s, d, from) ==
    LET f == Max(0, Min(from, Len(s)))
        hits == {i \in f..(Len(s) - Len(d)) : StartsAt(s, d, i)}
    IN  IF hits = {} THEN -1 ELSE SetMin(hits)

\* s.slice(start, end): a negative index counts from the end
Slice(s, start, end) ==
    LET n == Len(s)
        a == IF start < 0 THEN Max(n + start, 0) ELSE Min(start, n)
        b == IF end < 0 THEN Max(n + end, 0) ELSE Min(end, n)
    IN  IF a >= b THEN <<>> ELSE SubSeq(s, a + 1, b)

\* s.split(d) for a one-character d; s.split(undefined) is [s]
RECURSIVE Split(_, _)
Split(s, d) ==
    IF d = undefined THEN <<s>>
    ELSE LET i == IndexOf(s, <<d>>, 0)
         IN  IF i = -1 THEN <<s>>
             ELSE <<Slice(s, 0, i)>> \o Split(Slice(s, i + 1, Len(s)), d)

\* Array(n)
Array(n) == [i \in 1..n |-> Hole]

\* row[i] = v on a JavaScript array: writing past the end lengthens it
SetAt(row, i, v) ==
    IF i < Len(row) THEN [row EXCEPT ![i + 1] = v]
    ELSE row \o Array(i - Len(row)) \o <<v>>

(* --------------------------- genToTypedFn() ---------------------------- *)

\* a value of the conversion routine
Cell(t, v) == [t |-> t, v |-> v]

\* a raw field
Str(s) == Cell("string", s)

\* a slot of a row that was never written: reading it gives undefined
HoleCell == Cell("hole", <<>>)

TUndefined == Cell("undefined", <<>>)

TNull == Cell("null", <<>>)

\* the conversion threw (JSON.parse, a SyntaxError)
Thrown == Cell("throw", <<>>)

\* r[ci] == null
IsNullish(c) == c.t \in {"hole", "undefined", "null"}

\* r[ci], undefined behind the end of r
CellAt(r, ci) == IF ci < Len(r) THEN r[ci + 1] ELSE HoleCell

\* r[ci] = c
SetCell(r, ci, c) ==
    IF ci < Len(r) THEN [r EXCEPT ![ci + 1] = c]
    ELSE r \o [k \in 1..(ci - Len(r)) |-> HoleCell] \o <<c>>

DecDigits == {"0", "1", "2", "3", "4", "5", "6", "7", "8", "9"}

AllDigits(s, a, b) == b <= Len(s) /\ \A k \in a..b : s[k] \in DecDigits

\* the maximal run of digits of s from the 1-based index a
RECURSIVE DigitRun(_, _)
DigitRun(s, a) == IF a <= Len(s) /\ s[a] \in DecDigits THEN <<s[a]>> \o DigitRun(s, a + 1) ELSE <<>>

\* ISO8601.test(v):
\* /^\d{4}-\d{2}-\d{2}T\d{2}:\d{2}:\d{2}(?:\.\d{3,})?(?:Z|[-+]\d{2}:?\d{2})$/
ISO8601(v) ==
    /\ Len(v) >= 20
    /\ AllDigits(v, 1, 4) /\ v[5] = "-" /\ AllDigits(v, 6, 7) /\ v[8] = "-" /\ AllDigits(v, 9, 10)
    /\ v[11] = "T"
    /\ AllDigits(v, 12, 13) /\ v[14] = ":" /\ AllDigits(v, 15, 16) /\ v[17] = ":" /\ AllDigits(v, 18, 19)
    /\ LET frac == IF v[20] = "." THEN DigitRun(v, 21) ELSE <<>>
           z == IF v[20] = "." THEN 21 + Len(frac) ELSE 20
           tz == SubSeq(v, z, Len(v))
       IN  /\ v[20] = "." => Len(frac) >= 3
           /\ \/ tz = <<"Z">>
              \/ /\ Len(tz) = 5 /\ tz[1] \in {"-", "+"} /\ AllDigits(tz, 2, 5)
              \/ /\ Len(tz) = 6 /\ tz[1] \in {"-", "+"} /\ AllDigits(tz, 2, 3) /\ tz[4] = ":"
                 /\ AllDigits(tz, 5, 6)

StrWhiteSpace == {" ", "\t", "\n", "\r"}

RECURSIVE SkipWhiteSpace(_)
SkipWhiteSpace(s) == IF s # <<>> /\ Head(s) \in StrWhiteSpace THEN SkipWhiteSpace(Tail(s)) ELSE s

RECURSIVE SkipZeros(_)
SkipZeros(s) == IF Len(s) > 1 /\ Head(s) = "0" THEN SkipZeros(Tail(s)) ELSE s

\* the number NaN
TNaN == Cell("number", <<"N", "a", "N">>)

\* the number that a run of digits writes, negative with neg
Num(digits, neg) ==
    LET d == SkipZeros(digits)
    IN  Cell("number", IF neg /\ d # <<"0">> THEN <<"-">> \o d ELSE d)

\* Number.parseFloat(v) for a text without ".", exponent and "Infinity":
\* leading white space and a sign are skipped and the longest run of digits
\* is the number, NaN if there is none
ParseFloat(v) ==
    LET t == SkipWhiteSpace(v)
        signed == t # <<>> /\ Head(t) \in {"-", "+"}
        run == DigitRun(t, IF signed THEN 2 ELSE 1)
    IN  IF run = <<>> THEN TNaN ELSE Num(run, signed /\ Head(t) = "-")

\* c.toLowerCase() for one character
LowerChar(c) ==
    CASE c = "T" -> "t" [] c = "R" -> "r" [] c = "U" -> "u" [] c = "E" -> "e"
      [] c = "F" -> "f" [] c = "A" -> "a" [] c = "L" -> "l" [] c = "S" -> "s"
      [] c = "N" -> "n" [] c = "Z" -> "z"
      [] OTHER -> c

ToLowerCase(v) == [k \in 1..Len(v) |-> LowerChar(v[k])]

S_true == <<"t", "r", "u", "e">>

S_false == <<"f", "a", "l", "s", "e">>

S_null == <<"n", "u", "l", "l">>

\* /^(?:true|false)$/i.test(v)
IsBoolText(v) == ToLowerCase(v) \in {S_true, S_false}

TBool(b) == Cell("boolean", IF b THEN S_true ELSE S_false)

RECURSIVE SkipWhiteSpaceEnd(_)
SkipWhiteSpaceEnd(s) ==
    IF s # <<>> /\ s[Len(s)] \in StrWhiteSpace THEN SkipWhiteSpaceEnd(SubSeq(s, 1, Len(s) - 1)) ELSE s

\* JSON.parse(t) for a scalar t without white space around it: a number
\* without fraction and exponent, true, false or null
JsonScalar(t) ==
    LET neg == t # <<>> /\ Head(t) = "-"
        d == IF neg THEN Tail(t) ELSE t
    IN  IF d # <<>> /\ AllDigits(d, 1, Len(d)) /\ (Len(d) = 1 \/ Head(d) # "0") THEN Num(d, neg)
        ELSE IF t = S_true THEN TBool(TRUE)
        ELSE IF t = S_false THEN TBool(FALSE)
        ELSE IF t = S_null THEN TNull
        ELSE Thrown

\* JSON.parse(v) for the texts that are a scalar, [] , {} or an array of one
\* scalar; every other text of the model is no JSON and throws
JsonParse(v) ==
    LET t == SkipWhiteSpaceEnd(SkipWhiteSpace(v))
        inner == SkipWhiteSpaceEnd(SkipWhiteSpace(SubSeq(t, 2, Len(t) - 1)))
    IN  IF Len(t) >= 2 /\ t[1] = "[" /\ t[Len(t)] = "]"
        THEN IF inner = <<>> THEN Cell("array", <<>>)
             ELSE IF JsonScalar(inner) # Thrown THEN Cell("array", JsonScalar(inner).v)
             ELSE Thrown
        ELSE IF Len(t) >= 2 /\ t[1] = "{" /\ t[Len(t)] = "}" /\ inner = <<>>
        THEN Cell("object", <<>>)
        ELSE JsonScalar(t)

\* the row genToTypedFn analyzes for column ci:
\* rows.find(r => r[ci] != null & r[ci] !== ''), 0 when there is none
FindRow(rows, ci) ==
    LET hits == {k \in 1..Len(rows) : ~IsNullish(CellAt(rows[k], ci)) /\ CellAt(rows[k], ci) # Str(<<>>)}
    IN  IF hits = {} THEN 0 ELSE SetMin(hits)

\* the conversion genToTypedFn chooses for column ci (parseVal)
Classify(rows, ci) ==
    IF FindRow(rows, ci) = 0 THEN "string"
    ELSE LET v == CellAt(rows[FindRow(rows, ci)], ci).v
         IN  IF ISO8601(v) THEN "date"
             ELSE IF ParseFloat(v) # TNaN THEN "number"
             ELSE IF IsBoolText(v) THEN "boolean"
             ELSE IF v[1] \in {"[", "{"} /\ JsonParse(v) # Thrown THEN "json"
             ELSE "string"

\* parseVal evaluated on the field c: new Date(r[ci]), Number.parseFloat(r[ci]),
\* r[ci].toLowerCase() === 'true' ? true : false, JSON.parse(r[ci]) or r[ci]
Conv(kind, c) ==
    CASE kind = "date" -> Cell("date", c.v)
      [] kind = "number" -> ParseFloat(c.v)
      [] kind = "boolean" -> IF IsNullish(c) THEN Thrown ELSE TBool(ToLowerCase(c.v) = S_true)
      [] kind = "json" -> JsonParse(c.v)
      [] OTHER -> IF c = HoleCell THEN TUndefined ELSE c

\* r[ci] === '' || r[ci] == null ? undefined : r[ci] === 'null' ? null : parseVal
Coerce_noUndefinedTest(kind, c) ==
    IF c = Str(<<>>) THEN TUndefined
    ELSE IF c = Str(S_null) THEN TNull
    ELSE Conv(kind, c)

Coerce(kind, c) ==
    IF c = Str(<<>>) \/ IsNullish(c) THEN TUndefined
    ELSE IF c = Str(S_null) THEN TNull
    ELSE Conv(kind, c)

\* positional mode, the loop body for one row: r[0] = ...; r[1] = ...; each
\* written into the row itself, up to a conversion that throws
RECURSIVE TypeRow(_, _, _)
TypeRow(kinds, r, ci) ==
    IF ci >= Len(kinds) THEN [row |-> r, threw |-> FALSE]
    ELSE LET c == Coerce(kinds[ci + 1], CellAt(r, ci))
         IN  IF c = Thrown THEN [row |-> r, threw |-> TRUE]
             ELSE TypeRow(kinds, SetCell(r, ci, c), ci + 1)

\* record mode, the loop body for one row: the object literal
\* {"name0": ..., "name1": ...}, in which a later equal name wins
RecordOf(cols, kinds, r) ==
    LET vals == [ci \in 0..(Len(cols) - 1) |-> Coerce(kinds[ci + 1], CellAt(r, ci))]
        last(name) == CHOOSE ci \in 0..(Len(cols) - 1) :
                          cols[ci + 1] = name /\ \A cj \in (ci + 1)..(Len(cols) - 1) : cols[cj + 1] # name
    IN  [rec   |-> [name \in {cols[k] : k \in 1..Len(cols)} |-> vals[last(name)]],
         threw |-> \E ci \in 0..(Len(cols) - 1) : vals[ci] = Thrown]

\* for (let i = 0; i < rows.length; i++) in positional mode, from row i on:
\* the rows as the loop leaves them
RECURSIVE TypeRows(_, _, _)
TypeRows(kinds, rows, i) ==
    IF i > Len(rows) THEN [rows |-> rows, threw |-> FALSE]
    ELSE LET t == TypeRow(kinds, rows[i], 0)
         IN  IF t.threw THEN [rows |-> [rows EXCEPT ![i] = t.row], threw |-> TRUE]
             ELSE TypeRows(kinds, [rows EXCEPT ![i] = t.row], i + 1)

\* the conversion routine not made yet
TyIdle ==
    [pc |-> "idle", cols |-> <<>>, objs |-> FALSE, sample |-> <<>>, kinds |-> <<>>,
     raw |-> <<>>, rows |-> <<>>, out |-> <<>>]

(* ------------------------------ parse() -------------------------------- *)

\* the constants parse() derives from its arguments:
\* dist  parse(csvStr, schema, cb, chunkSize = CHUNK_SIZE, chunkLimit = null, _maxCols = null)
\* src   parse(csvStr, schema, cb, limit, _maxCols), with chunks of CHUNK_SIZE rows
ParseEnv(b, csv, sch, cs, cl, mc, lim) ==
    [build      |-> b,
     csvStr     |-> csv,
     colDelim   |-> sch.cols.delim,
     rowDelim   |-> sch.rows.delim,
     quote      |-> sch.quote,
     numCols    |-> IF mc # None /\ mc # 0 THEN mc ELSE Len(sch.cols.names),
     hasLimit   |-> IF b = "dist" THEN cl # None ELSE lim # None,
     probe      |-> mc # None /\ (IF b = "dist" THEN cl # None ELSE lim # None),
     chunkSize  |-> IF b = "dist" THEN cs ELSE CHUNK_SIZE,
     chunkLimit |-> cl,
     limit      |-> lim]

env == ParseEnv(build, csvStr, schema, chunkSize, chunkLimit, maxCols, limit)

\* the test that takes the quote-free path: schema.quote == null (dist),
\* !schema.quote (src)
QuoteFree(e) == IF e.build = "dist" THEN e.quote = null ELSE e.quote \in {null, ""}

\* rowDelim.charCodeAt(0), NaN for the empty row delimiter
RowDelimChar(e) == CharCodeAt(e.rowDelim, 0)

\* the locals of a parse() call as it enters its loop.  calls is the log of
\* cb(rows, numChunks) invocations (src: cb(rows), idx is None).  starts, rowStart, qStart and lastField
\* are history: the source offset each row began at, the offset of the
\* opening quote of the field being accumulated, and the last field stored
\* in a row.  rowHeap and chunkHeap hold the arrays the call allocated, by
\* identity: rowHeap[rowId] is the array row names, chunkHeap[rowsId] the
\* identities of the rows in the array rows names.
ParseInit(e) ==
    [pc        |-> IF QuoteFree(e) THEN "fast"
                   ELSE IF e.colDelim = undefined THEN "threw"
                   ELSE "scan",
     pos       |-> 0,
     inCol     |-> 0,
     v         |-> <<>>,
     row       |-> IF QuoteFree(e) THEN <<>> ELSE Array(e.numCols),
     colIdx    |-> 0,
     rows      |-> <<>>,
     numChunks |-> 0,
     calls     |-> <<>>,
     iter      |-> 0,
     starts    |-> <<>>,
     rowStart  |-> 0,
     qStart    |-> -1,
     lastField |-> [val |-> <<>>, qStart |-> -1, at |-> -1],
     rowHeap   |-> IF QuoteFree(e) THEN <<>> ELSE <<Array(e.numCols)>>,
     rowId     |-> IF QuoteFree(e) THEN 0 ELSE 1,
     chunkHeap |-> <<<<>>>>,
     rowsId    |-> 1]

\* row = Array(numCols) and, on the quote-free path, the array split()
\* returns: a new array, which row names from now on
AllocRow_reused(st, r) ==
    IF st.rowId = 0 THEN [st EXCEPT !.row = r, !.rowHeap = Append(@, r), !.rowId = Len(st.rowHeap) + 1]
    ELSE [st EXCEPT !.row = r, !.rowHeap[st.rowId] = r]

AllocRow(st, r) == [st EXCEPT !.row = r, !.rowHeap = Append(@, r), !.rowId = Len(st.rowHeap) + 1]

\* rows = []: a new array, which rows names from now on
AllocRows(st) ==
    [st EXCEPT !.rows = <<>>, !.starts = <<>>,
               !.chunkHeap = Append(@, <<>>), !.rowsId = Len(st.chunkHeap) + 1]

\* row[colIdx] = v: a write into the array row names
WriteRow(st) ==
    [st EXCEPT !.row = SetAt(@, st.colIdx, st.v),
               !.rowHeap[st.rowId] = SetAt(@, st.colIdx, st.v)]

\* rows.push(row): a write into the array rows names
PushRef(st) ==
    [st EXCEPT !.rows = Append(@, st.row),
               !.starts = Append(@, st.rowStart),
               !.chunkHeap[st.rowsId] = Append(@, st.rowId)]

\* cb(rows, numChunks++) in dist, cb(rows) in src: the callback is handed
\* the array rows names (ref) and sees the rows it holds at that time
Callback(e, st) ==
    LET call == [rows |-> st.rows, idx |-> IF e.build = "dist" THEN st.numChunks ELSE None,
                 starts |-> st.starts, ref |-> st.rowsId]
    IN  [st EXCEPT !.calls = Append(@, call),
                   !.numChunks = IF e.build = "dist" THEN @ + 1 ELSE @]

\* src: rows.push(row); with limit rows, cb(rows) and the call ends; with
\* CHUNK_SIZE rows, cb(rows) and rows = []
PushRowSrc(e, st, r) ==
    LET s == PushRef([st EXCEPT !.row = r])
    IN  IF e.hasLimit /\ Len(s.rows) = e.limit
        THEN [Callback(e, s) EXCEPT !.pc = "done"]
        ELSE IF Len(s.rows) = e.chunkSize
        THEN AllocRows(Callback(e, s))
        ELSE s

\* dist: rows.push(row), then cb(rows, numChunks++) and rows = [] when the
\* chunk is full; ends the call when the chunk limit is reached
PushRow_lateCallback(e, st, r) ==
    LET s0 == PushRef([st EXCEPT !.row = r])
    IN  IF Len(s0.rows) > e.chunkSize
        THEN LET s == AllocRows(Callback(e, s0))
             IN  IF e.hasLimit /\ s.numChunks = e.chunkLimit
                 THEN [s EXCEPT !.pc = "done"]
                 ELSE s
        ELSE s0

PushRow(e, st, r) ==
    LET s0 == PushRef([st EXCEPT !.row = r])
    IN  IF Len(s0.rows) = e.chunkSize
        THEN LET s == AllocRows(Callback(e, s0))
             IN  IF e.hasLimit /\ s.numChunks = e.chunkLimit
                 THEN [s EXCEPT !.pc = "done"]
                 ELSE s
        ELSE s0

\* the quote-free path: one iteration of while ((idx = csvStr.indexOf(rowDelim, pos)) > -1)
FastIter(e, st) ==
    LET idx == IndexOf(e.csvStr, e.rowDelim, st.pos)
        r == Split(Slice(e.csvStr, st.pos, idx), e.colDelim)
        s == AllocRow([st EXCEPT !.rowStart = st.pos, !.pos = idx + Len(e.rowDelim), !.iter = @ + 1], r)
    IN  IF e.build = "dist" THEN PushRow(e, s, r) ELSE PushRowSrc(e, s, r)

\* the quote-free path after its loop: if (rows.length > 0) cb(rows, numChunks++); return
FastEnd(e, st) ==
    IF Len(st.rows) > 0
    THEN [Callback(e, st) EXCEPT !.pc = "done"]
    ELSE [st EXCEPT !.pc = "done"]

\* PUSH MACRO: store the field, and on the row delimiter push the row
Push(e, st, c) ==
    LET row1 == SetAt(st.row, st.colIdx, st.v)
        s1 == [WriteRow(st) EXCEPT
                         !.colIdx = @ + 1,
                         !.pos = @ + 1,
                         !.v = <<>>,
                         !.lastField = [val |-> st.v, qStart |-> st.qStart, at |-> st.pos],
                         !.qStart = -1]
    IN  IF ~SameCode(c, RowDelimChar(e)) THEN s1
        ELSE LET s2 == IF e.build = "dist" THEN PushRow(e, s1, row1) ELSE PushRowSrc(e, s1, row1)
             IN  IF s2.pc = "done" THEN s2
                 ELSE [AllocRow(s2, Array(e.numCols)) EXCEPT
                                 !.colIdx = 0,
                                 !.pos = @ + Len(e.rowDelim) - 1,
                                 !.rowStart = s1.pos + Len(e.rowDelim) - 1]

\* v += quote; pos += 2 on a doubled quote inside a quoted field
DoubledQuote_skipOne(st) == [st EXCEPT !.v = Append(@, quote), !.pos = @ + 1]

DoubledQuote(st) == [st EXCEPT !.v = Append(@, quote), !.pos = @ + 2]

\* src: the quoted state does one step in each iteration of the outer loop
QuotedStep(e, st, c) ==
    IF SameCode(c, quote)
    THEN IF SameCode(CharCodeAt(e.csvStr, st.pos + 1), quote)
         THEN DoubledQuote(st)
         ELSE [st EXCEPT !.inCol = 0, !.pos = @ + 1]
    ELSE LET pos2 == IndexOf(e.csvStr, <<quote>>, st.pos)
         IN  [st EXCEPT !.v = @ \o Slice(e.csvStr, st.pos, pos2), !.pos = pos2]

\* dist: the quoted state's while (1): runs to the closing quote.  When indexOf
\* finds no quote, pos becomes -1 and the loop goes on from the start of
\* the text; coming there a second time it is in a cycle and never ends.
RECURSIVE QuotedLoop(_, _, _, _)
QuotedLoop(e, st, c, wrapped) ==
    IF SameCode(c, quote)
    THEN IF SameCode(CharCodeAt(e.csvStr, st.pos + 1), quote)
         THEN LET s == DoubledQuote(st)
              IN  QuotedLoop(e, s, CharCodeAt(e.csvStr, s.pos), wrapped)
         ELSE [st EXCEPT !.inCol = 0, !.pos = @ + 1]
    ELSE LET pos2 == IndexOf(e.csvStr, <<quote>>, st.pos)
             s == [st EXCEPT !.v = @ \o Slice(e.csvStr, st.pos, pos2), !.pos = pos2]
         IN  IF pos2 = -1 /\ wrapped THEN [s EXCEPT !.pc = "hang"]
             ELSE QuotedLoop(e, s, quote, wrapped \/ pos2 = -1)

\* takeToCommaOrEOL.exec(csvStr)[0] with lastIndex = pos: the longest run at
\* pos of characters that are neither colDelim nor a character of rowDelim
RECURSIVE TakeRun(_, _)
TakeRun(e, pos) ==
    LET c == CharCodeAt(e.csvStr, pos)
    IN  IF c = NaN \/ c = e.colDelim \/ (\E k \in 1..Len(e.rowDelim) : e.rowDelim[k] = c)
        THEN <<>>
        ELSE <<c>> \o TakeRun(e, pos + 1)

\* the unquoted state: store the field at a delimiter, else scan forward
Unquoted(e, st, c) ==
    IF SameCode(c, e.colDelim) \/ SameCode(c, RowDelimChar(e))
    THEN LET s == Push(e, st, c)
         IN  IF s.pc = "done" THEN s ELSE [s EXCEPT !.inCol = 0]
    ELSE IF e.probe
    THEN LET m == TakeRun(e, Max(st.pos, 0))
         IN  IF m = <<>> THEN [st EXCEPT !.pc = "threw"]
             ELSE [st EXCEPT !.v = @ \o m, !.pos = @ + Len(m)]
    ELSE LET found == IF st.colIdx = e.numCols - 1
                      THEN IndexOf(e.csvStr, e.rowDelim, st.pos)
                      ELSE IndexOf(e.csvStr, <<e.colDelim>>, st.pos)
             pos2 == IF st.colIdx = e.numCols - 1 /\ found = -1 THEN Len(e.csvStr) ELSE found
         IN  [st EXCEPT !.v = @ \o Slice(e.csvStr, st.pos, pos2), !.pos = pos2]

\* one iteration of while (pos <= endPos)
Iterate(e, st0) ==
    LET st == [st0 EXCEPT !.iter = @ + 1]
        c == CharCodeAt(e.csvStr, st.pos)
    IN  IF st.inCol = 0
        THEN IF SameCode(c, quote)
             THEN LET s == [st EXCEPT !.inCol = 2, !.pos = @ + 1,
                                      !.qStart = IF st.v = <<>> THEN st.pos ELSE -1]
                  IN  IF e.build = "dist"
                      THEN QuotedLoop(e, s, CharCodeAt(e.csvStr, s.pos), FALSE)
                      ELSE QuotedStep(e, s, CharCodeAt(e.csvStr, s.pos))
             ELSE IF SameCode(c, e.colDelim) \/ SameCode(c, RowDelimChar(e))
             THEN Push(e, st, c)
             ELSE Unquoted(e, [st EXCEPT !.inCol = 1], c)
        ELSE IF st.inCol = 2
        THEN IF e.build = "dist" THEN QuotedLoop(e, st, c, FALSE) ELSE QuotedStep(e, st, c)
        ELSE Unquoted(e, st, c)

\* after the loop: row[colIdx] = v; rows.push(row); cb(rows, numChunks++)
FinalFlush(e, st) ==
    LET s == [PushRef(WriteRow(st)) EXCEPT
                        !.lastField = [val |-> st.v, qStart |-> st.qStart, at |-> st.pos],
                        !.pc = "done"]
    IN  Callback(e, s)

(* ------------------------------ actions -------------------------------- *)

Frame == UNCHANGED <<build, csvStr, schema, chunkSize, chunkLimit, maxCols, limit, spc, ty>>

\* quote-free path, loop body
FastRow ==
    /\ ps.pc = "fast"
    /\ ps.iter < MaxIter
    /\ IndexOf(csvStr, schema.rows.delim, ps.pos) > -1
    /\ ps' = FastIter(env, ps)
    /\ Frame

\* quote-free path, loop exit
FastReturn ==
    /\ ps.pc = "fast"
    /\ IndexOf(csvStr, schema.rows.delim, ps.pos) = -1
    /\ ps' = FastEnd(env, ps)
    /\ Frame

\* state-machine path, loop body
Scan ==
    /\ ps.pc = "scan"
    /\ ps.iter < MaxIter
    /\ ps.pos <= Len(csvStr) - 1
    /\ ps' = Iterate(env, ps)
    /\ Frame

\* state-machine path, loop exit
Flush ==
    /\ ps.pc = "scan"
    /\ ps.pos > Len(csvStr) - 1
    /\ ps' = FinalFlush(env, ps)
    /\ Frame

(* --------------------- parse() called with a schema -------------------- *)

Texts(A, n) == UNION {[1..k -> A] : k \in 0..n}

ParseAlphabet == {"a", comma, LF, quote}

\* schema.quote as schema() sets it for a text without quote character
NoQuote(b) == IF b = "dist" THEN null ELSE ""

\* a schema as schema() leaves it, with n columns
SchemaOf(q, cd, rd, n) ==
    [quote |-> q,
     cols  |-> [delim |-> cd, names |-> [i \in 1..n |-> <<"a">>], types |-> [i \in 1..n |-> "s"]],
     rows  |-> [delim |-> rd]]

\* the arguments of parse(): a caller's parse with a finished schema, or
\* schema()'s probing call with _maxCols and no column names yet
Init ==
    /\ csvStr \in Texts(ParseAlphabet, MaxLen)
    /\ \/ /\ build = "dist"
          /\ chunkSize \in 1..MaxChunkSize
          /\ chunkLimit \in {None, 1}
          /\ limit = None
       \/ /\ build = "src"
          /\ chunkSize = CHUNK_SIZE
          /\ chunkLimit = None
          /\ limit \in {None} \cup 1..MaxChunkSize
    /\ \E q \in {NoQuote(build), quote}, n \in 1..MaxCols :
          \/ maxCols = None /\ schema = SchemaOf(q, comma, <<LF>>, n)
          \/ maxCols = n /\ schema = SchemaOf(q, comma, <<LF>>, 0)
    /\ ps = ParseInit(env)
    /\ spc = "parse"
    /\ ty = TyIdle

Next == FastRow \/ FastReturn \/ Scan \/ Flush

Spec == Init /\ [][Next]_vars

(* ------------------------------ schema() ------------------------------- *)

\* a slot of the types array that was never written
TypeHole == "<hole>"

\* the characters `.` does not match
LineTerminators == {LF, CR}

\* firstRowMatch[1] of csvStr.match(/(.*)(\r?\n?)/): the text before the
\* first line terminator
FirstRowStr(s) ==
    LET ends == {i \in 0..Len(s) : i = Len(s) \/ s[i + 1] \in LineTerminators}
    IN  Slice(s, 0, SetMin(ends))

\* firstRowMatch[2]: an optional \r and then an optional \n after the first line
FirstRowDelim(s) ==
    LET k == Len(FirstRowStr(s))
        r == IF CharCodeAt(s, k) = CR THEN <<CR>> ELSE <<>>
        n == IF CharCodeAt(s, k + Len(r)) = LF THEN <<LF>> ELSE <<>>
    IN  r \o n

\* delims.find(delim => s.indexOf(delim) > -1)
RECURSIVE Find(_, _)
Find(delims, s) ==
    IF delims = <<>> THEN undefined
    ELSE IF IndexOf(s, <<Head(delims)>>, 0) > -1 THEN Head(delims)
    ELSE Find(Tail(delims), s)

\* csvStr.indexOf(quote) > -1
HasQuotes(s) == IndexOf(s, <<quote>>, 0) > -1

\* the schema object as built before probing
Sniffed(b, s) ==
    [quote |-> IF HasQuotes(s) THEN quote ELSE NoQuote(b),
     cols  |-> [delim |-> Find(COL_DELIMS, FirstRowStr(s)), names |-> <<>>, types |-> <<>>],
     rows  |-> [delim |-> FirstRowDelim(s)]]

\* Object.values(row): the written slots, in index order
ObjectValues(row) == SelectSeq(row, LAMBDA f : f # Hole)

\* String(n) for an index n >= 0
RECURSIVE NumToString(_)
NumToString(n) ==
    LET d == <<"0", "1", "2", "3", "4", "5", "6", "7", "8", "9">>
    IN  IF n < 10 THEN <<d[n + 1]>> ELSE NumToString(n \div 10) \o <<d[(n % 10) + 1]>>

\* Object.keys(row): the indices of the written slots, as strings
RECURSIVE ObjectKeys(_, _)
ObjectKeys(row, i) ==
    IF i >= Len(row) THEN <<>>
    ELSE (IF row[i + 1] = Hole THEN <<>> ELSE <<NumToString(i)>>) \o ObjectKeys(row, i + 1)

\* firstRows after the callback chunk => firstRows.push(...chunk) ran for every call
RECURSIVE Pushed(_)
Pushed(calls) == IF calls = <<>> THEN <<>> ELSE Head(calls).rows \o Pushed(Tail(calls))

WhiteSpace == {tab, LF, CR, " "}

Digits == {"0", "1", "2", "3", "4", "5", "6", "7", "8", "9"}

RECURSIVE TrimStart(_)
TrimStart(s) == IF s # <<>> /\ Head(s) \in WhiteSpace THEN TrimStart(Tail(s)) ELSE s

RECURSIVE TrimEnd(_)
TrimEnd(s) == IF s # <<>> /\ s[Len(s)] \in WhiteSpace THEN TrimEnd(SubSeq(s, 1, Len(s) - 1)) ELSE s

\* Number.isNaN(+val) for a string of digits, white space, delimiters, quotes
\* and the letter a: white space is trimmed, the empty string is 0
IsNaN(val) == \E i \in 1..Len(TrimEnd(TrimStart(val))) : TrimEnd(TrimStart(val))[i] \notin Digits

\* types[i] = t on a JavaScript array
SetType(types, i, t) ==
    IF i < Len(types) THEN [types EXCEPT ![i + 1] = t]
    ELSE types \o [k \in 1..(i - Len(types)) |-> TypeHole] \o <<t>>

\* if (!Number.isNaN(+val)) schema.cols.types[colIdx] = 'n'
ProbeVal(types, val, colIdx) == IF ~IsNaN(val) THEN SetType(types, colIdx, "n") ELSE types

\* r.forEach((val, colIdx) => ...), which skips the holes of r
RECURSIVE ProbeRow(_, _, _)
ProbeRow(types, r, colIdx) ==
    IF colIdx >= Len(r) THEN types
    ELSE ProbeRow(IF r[colIdx + 1] = Hole THEN types ELSE ProbeVal(types, r[colIdx + 1], colIdx),
                  r, colIdx + 1)

\* firstRows.forEach(r => ...)
RECURSIVE ProbeRows(_, _)
ProbeRows(types, rs) ==
    IF rs = <<>> THEN types ELSE ProbeRows(ProbeRow(types, Head(rs), 0), Tail(rs))

\* schema(csvStr, limit) up to its call of parse:
\* dist  _maxCols = firstRowStr.split(colDelim).length;      parse(csvStr, schema, cb, limit, 1, _maxCols)
\* src   _maxCols = firstRowStr.split(colDelim).length + 1;  parse(csvStr, schema, cb, limit, _maxCols)
SchemaSniff ==
    /\ spc = "start"
    /\ schema' = Sniffed(build, csvStr)
    /\ chunkSize' = IF build = "dist" THEN limit ELSE chunkSize
    /\ chunkLimit' = IF build = "dist" THEN 1 ELSE chunkLimit
    /\ maxCols' = Len(Split(FirstRowStr(csvStr), Find(COL_DELIMS, FirstRowStr(csvStr))))
                      + (IF build = "dist" THEN 0 ELSE 1)
    /\ ps' = ParseInit(ParseEnv(build, csvStr, schema', chunkSize', chunkLimit', maxCols', limit))
    /\ spc' = "probing"
    /\ UNCHANGED <<build, csvStr, limit, ty>>

\* schema() after parse() returned: the header row names the columns, the
\* other rows are probed for types
SchemaReturn ==
    /\ spc = "probing"
    /\ ps.pc = "done"
    /\ LET firstRows == Pushed(ps.calls)
       IN  IF firstRows = <<>>
           THEN spc' = "threw" /\ UNCHANGED schema
           ELSE LET header == IF build = "dist" THEN ObjectValues(Head(firstRows))
                              ELSE ObjectKeys(Head(firstRows), 0)
                    types == ProbeRows([i \in 1..Len(header) |-> "s"], Tail(firstRows))
                IN  /\ schema' = [schema EXCEPT !.cols.names = header, !.cols.types = types]
                    /\ spc' = "returned"
    /\ UNCHANGED <<build, csvStr, chunkSize, chunkLimit, maxCols, ps, limit, ty>>

\* parse() threw (a TypeError): schema() has no handler, its caller gets the error
SchemaThrows ==
    /\ spc = "probing"
    /\ ps.pc = "threw"
    /\ spc' = "threw"
    /\ UNCHANGED <<build, csvStr, schema, chunkSize, chunkLimit, maxCols, ps, limit, ty>>

BlankSchema == SchemaOf(null, undefined, <<>>, 0)

\* a parse() that was not called yet
Idle == [ParseInit(ParseEnv("dist", <<>>, BlankSchema, 1, None, None, None)) EXCEPT !.pc = "idle"]

SniffAlphabet == {"a", tab, pipe, semi, comma, LF, CR, quote}

ProbeAlphabet == {"a", "1", comma, LF, quote}

\* schema(csvStr, limit) about to run
InitSchemaOn(texts) ==
    /\ build \in {"dist", "src"}
    /\ csvStr \in texts
    /\ limit \in 1..MaxSample
    /\ spc = "start"
    /\ schema = BlankSchema
    /\ chunkSize = CHUNK_SIZE
    /\ chunkLimit = None
    /\ maxCols = None
    /\ ps = Idle
    /\ ty = TyIdle

InitSchema == InitSchemaOn(Texts(SniffAlphabet, MaxSniffLen))

InitProbe == InitSchemaOn(Texts(ProbeAlphabet, MaxProbeLen))

NextSchema == SchemaSniff \/ FastRow \/ FastReturn \/ Scan \/ Flush \/ SchemaReturn \/ SchemaThrows

\* schema() on texts over the delimiter candidates and line terminators
SpecSchema == InitSchema /\ [][NextSchema]_vars

\* a caller's parse(csvStr, schema, cb) with the schema that schema() returned
\* for the text, every other argument left at its default
ParseSniffed ==
    /\ spc = "returned"
    /\ chunkSize' = CHUNK_SIZE
    /\ chunkLimit' = None
    /\ maxCols' = None
    /\ limit' = None
    /\ ps' = ParseInit(ParseEnv(build, csvStr, schema, chunkSize', chunkLimit', maxCols', limit'))
    /\ spc' = "parse"
    /\ UNCHANGED <<build, csvStr, schema, ty>>

NextUse == NextSchema \/ ParseSniffed

\* schema() and then parse() with its result, on the same text
SpecUse == InitSchema /\ [][NextUse]_vars

(* ------------------- genToTypedFn() and its routine -------------------- *)

\* most sample rows given to genToTypedFn()
MaxTypedSample == 2

\* most rows in a chunk given to the conversion routine
MaxTypedRows == 2

S_date == <<"2", "0", "2", "3", "-", "0", "1", "-", "0", "1", "T", "0", "0", ":", "0", "0", ":", "0", "0", "Z">>

\* the fields of sample rows: an unset slot, the empty text, and a text for
\* each conversion
SampleCells ==
    {HoleCell, Str(<<>>), Str(<<"1", "a">>), Str(<<"T", "r", "u", "e">>), Str(<<"[", "1", "]">>),
     Str(S_date), Str(S_null)}

\* the fields of the rows to convert
RawCells == {HoleCell, Str(<<>>), Str(S_null), Str(<<"1">>), Str(<<"T", "R", "U", "E">>)}

\* the column names given to genToTypedFn()
TypedHeaders == {<<<<"a">>>>, <<<<quote>>>>, <<<<"a">>, <<"b">>>>, <<<<"a">>, <<"a">>>>}

\* the sequences of at least lo and at most hi rows of n fields out of cells
RowsOf(cells, n, lo, hi) == UNION {[1..k -> [1..n -> cells]] : k \in lo..hi}

\* a column name that ends the string literal "name" it is put into
BreaksLiteral(name) == \E k \in 1..Len(name) : name[k] \in {quote, "\\", LF, CR}

\* genToTypedFn(cols, rows, objs): a conversion for each column, and the
\* routine compiled from the text built with them (new Function, which
\* throws a SyntaxError when the text is no function body)
GenToTypedFn ==
    /\ spc = "typed"
    /\ ty.pc = "start"
    /\ ty' = IF ty.objs /\ \E k \in 1..Len(ty.cols) : BreaksLiteral(ty.cols[k])
             THEN [ty EXCEPT !.pc = "threw", !.sample = <<>>]
             ELSE [ty EXCEPT !.pc = "compiled",
                             !.kinds = [k \in 1..Len(ty.cols) |-> Classify(ty.sample, k - 1)],
                             !.sample = <<>>]
    /\ UNCHANGED <<build, csvStr, schema, chunkSize, chunkLimit, maxCols, ps, limit, spc>>

\* the routine called with a chunk.  Positional mode: arr = rows, the rows
\* are converted in place and the chunk itself is returned.  Record mode:
\* arr = Array(rows.length), arr[i] an object made from rows[i].
ToTyped ==
    /\ spc = "typed"
    /\ ty.pc = "compiled"
    /\ \E chunk \in RowsOf(RawCells, Len(ty.cols), 1, MaxTypedRows) :
          IF ty.objs
          THEN LET recs == [i \in 1..Len(chunk) |-> RecordOf(ty.cols, ty.kinds, chunk[i])]
                   threw == \E i \in 1..Len(chunk) : recs[i].threw
               IN  ty' = [ty EXCEPT !.pc = IF threw THEN "threw" ELSE "applied",
                                    !.raw = chunk,
                                    !.rows = chunk,
                                    !.out = IF threw THEN <<>> ELSE [i \in 1..Len(chunk) |-> recs[i].rec]]
          ELSE LET t == TypeRows(ty.kinds, chunk, 1)
               IN  ty' = [ty EXCEPT !.pc = IF t.threw THEN "threw" ELSE "applied",
                                    !.raw = chunk,
                                    !.rows = t.rows,
                                    !.out = IF t.threw THEN <<>> ELSE t.rows]
    /\ UNCHANGED <<build, csvStr, schema, chunkSize, chunkLimit, maxCols, ps, limit, spc>>

\* genToTypedFn(cols, rows, objs) about to run
InitTyped ==
    /\ build = "dist"
    /\ csvStr = <<>>
    /\ schema = BlankSchema
    /\ chunkSize = CHUNK_SIZE
    /\ chunkLimit = None
    /\ maxCols = None
    /\ limit = None
    /\ ps = Idle
    /\ spc = "typed"
    /\ \E h \in TypedHeaders, o \in BOOLEAN :
          \E smp \in RowsOf(SampleCells, Len(h), 0, MaxTypedSample) :
              ty = [TyIdle EXCEPT !.pc = "start", !.cols = h, !.objs = o, !.sample = smp]

NextTyped == GenToTypedFn \/ ToTyped

\* genToTypedFn() and one call of the routine it returns
SpecTyped == InitTyped /\ [][NextTyped]_vars

\* schema() on longer texts over a single delimiter, with digits
SpecProbe == InitProbe /\ [][NextSchema]_vars

(* ------------------- what the claims are measured on ------------------- *)

\* s cut at every occurrence of the non-empty sequence d, read character by character
RECURSIVE RefSplit(_, _, _)
RefSplit(s, d, cur) ==
    IF s = <<>> THEN <<cur>>
    ELSE IF Len(s) >= Len(d) /\ SubSeq(s, 1, Len(d)) = d
    THEN <<cur>> \o RefSplit(SubSeq(s, Len(d) + 1, Len(s)), d, <<>>)
    ELSE RefSplit(Tail(s), d, Append(cur, Head(s)))

\* the lines of s: each ended by rd, the terminator after the last one optional
RefLines(s, rd) ==
    LET parts == RefSplit(s, rd, <<>>)
    IN  IF parts[Len(parts)] = <<>> THEN SubSeq(parts, 1, Len(parts) - 1) ELSE parts

\* the rows of a text without quoting: its lines, each cut at the column delimiter
RefRows(s, cd, rd) ==
    LET lines == RefLines(s, rd)
    IN  [i \in 1..Len(lines) |-> RefSplit(lines[i], <<cd>>, <<>>)]

RECURSIVE RefJoin(_, _)
RefJoin(parts, d) ==
    IF parts = <<>> THEN <<>>
    ELSE IF Len(parts) = 1 THEN parts[1]
    ELSE parts[1] \o d \o RefJoin(Tail(parts), d)

\* rows's fields joined with cd and the rows joined with rd
RefRejoin(rows, cd, rd) == RefJoin([i \in 1..Len(rows) |-> RefJoin(rows[i], <<cd>>)], rd)

\* the rows the text holds, for the schema of the running parse()
SourceRows == RefRows(csvStr, schema.cols.delim, schema.rows.delim)

\* the rows handed to the callback so far, in callback order
Delivered == Pushed(ps.calls)

\* a text the tokenizer is given under the best conditions: no quote
\* character in it and, where the column count matters (the state-machine
\* path), every row with exactly numCols fields
Regular ==
    /\ ~HasQuotes(csvStr)
    /\ ~QuoteFree(env) => \A i \in 1..Len(SourceRows) : Len(SourceRows[i]) = env.numCols

\* a caller's parse() of the whole text has returned
ParsedAll == spc = "parse" /\ ps.pc = "done" /\ ~env.hasLimit /\ maxCols = None

\* C1: for a text of R rows and chunk size C, parse() without a limit calls
\* the callback ceil(R / C) times and the chunks, in callback order, are
\* exactly the R rows of the text, on both paths.
C1_Chunking ==
    (ParsedAll /\ Regular /\ Len(SourceRows) >= 1) =>
        /\ Len(ps.calls) = (Len(SourceRows) + env.chunkSize - 1) \div env.chunkSize
        /\ Delivered = SourceRows

\* the source offset just behind the k-th line and its terminator
RefEndOf(k) ==
    LET lines == RefLines(csvStr, schema.rows.delim)
        ends == [i \in 0..Len(lines) |-> Len(RefJoin(SubSeq(lines, 1, i), schema.rows.delim)) + Len(schema.rows.delim)]
    IN  Min(ends[k], Len(csvStr))

\* the row limit k of the running parse(): chunkSize = k with chunkLimit = 1
\* in dist, limit = k in src
RowLimit == IF build = "dist" THEN chunkSize ELSE limit

\* C2: parse() with a row limit k on a text of at least k rows delivers
\* exactly the first k rows in one callback and returns without reading
\* behind the k-th row.
C2_RowLimit ==
    (spc = "parse" /\ ps.pc = "done" /\ env.hasLimit /\ Regular /\ Len(SourceRows) >= RowLimit) =>
        /\ Len(ps.calls) = 1
        /\ Delivered = SubSeq(SourceRows, 1, RowLimit)
        /\ ps.pos <= RefEndOf(RowLimit)

\* the source offsets the delivered rows began at, in callback order
RECURSIVE DeliveredStarts(_)
DeliveredStarts(calls) == IF calls = <<>> THEN <<>> ELSE Head(calls).starts \o DeliveredStarts(Tail(calls))

\* C3: (dist) the callback gets the chunk indices 0, 1, 2, ...; every chunk
\* but a last one at the end of the input holds chunkSize rows; and the rows
\* come in source order: each delivered row begins behind the one delivered
\* before it.
C3_CallbackOrder ==
    build = "dist" =>
    /\ \A i \in 1..Len(ps.calls) : ps.calls[i].idx = i - 1
    /\ \A i \in 1..Len(ps.calls) :
          Len(ps.calls[i].rows) # chunkSize => (i = Len(ps.calls) /\ ps.pc = "done")
    /\ LET at == DeliveredStarts(ps.calls)
       IN  \A i \in 1..(Len(at) - 1) : at[i] < at[i + 1]

\* C4: a last row that no row delimiter follows is still delivered, as the
\* last row of the last callback, on both paths.
C4_FinalRow ==
    LET lines == RefSplit(csvStr, schema.rows.delim, <<>>)
    IN  (ParsedAll /\ Regular /\ lines[Len(lines)] # <<>>) =>
            /\ Delivered # <<>>
            /\ Delivered[Len(Delivered)] = SourceRows[Len(SourceRows)]

\* the offset of the quote that closes the quoted field opened at offset p:
\* the first quote behind p that is not the first of a doubled pair; -1 if none
RECURSIVE RefClose(_, _)
RefClose(s, i) ==
    IF i >= Len(s) THEN -1
    ELSE IF s[i + 1] # quote THEN RefClose(s, i + 1)
    ELSE IF i + 1 < Len(s) /\ s[i + 2] = quote THEN RefClose(s, i + 2)
    ELSE i

\* the content s[i..j-1] of a quoted field with every doubled quote made one
RECURSIVE RefUnescape(_, _, _)
RefUnescape(s, i, j) ==
    IF i >= j THEN <<>>
    ELSE IF s[i + 1] = quote THEN <<quote>> \o RefUnescape(s, i + 2, j)
    ELSE <<s[i + 1]>> \o RefUnescape(s, i + 1, j)

\* a well-formed quoted field opens at offset p of s
WellFormedAt(s, p, cd, rd) ==
    LET j == RefClose(s, p + 1)
    IN  /\ j # -1
        /\ \/ j + 1 = Len(s)
           \/ s[j + 2] = cd
           \/ StartsAt(s, rd, j + 1) /\ rd # <<>>

\* C5: on the state-machine path, a field the tokenizer begins on the opening
\* quote of a well-formed quoted field is stored as the content between the
\* quotes with every doubled quote made one, and it ends just behind the
\* closing quote: the delimiters between the quotes end neither field nor row.
C5_QuotedField ==
    LET f == ps.lastField
    IN  (f.qStart >= 0 /\ WellFormedAt(csvStr, f.qStart, schema.cols.delim, schema.rows.delim)) =>
            /\ f.val = RefUnescape(csvStr, f.qStart + 1, RefClose(csvStr, f.qStart + 1))
            /\ f.at = RefClose(csvStr, f.qStart + 1) + 1

\* a quoted field holding a doubled quote and a delimiter was stored
C5_Witness ==
    /\ spc = "parse"
    /\ ps.lastField.qStart >= 0
    /\ WellFormedAt(csvStr, ps.lastField.qStart, schema.cols.delim, schema.rows.delim)
    /\ \E i, j \in 1..Len(ps.lastField.val) :
          ps.lastField.val[i] = quote /\ ps.lastField.val[j] \in {comma, LF}

\* the schema of the running parse() is the one schema() sniffs from the text
SniffedSchema ==
    /\ schema.quote = Sniffed(build, csvStr).quote
    /\ schema.cols.delim = Sniffed(build, csvStr).cols.delim
    /\ schema.rows.delim = Sniffed(build, csvStr).rows.delim

\* C6: parsing a text without quotes with its sniffed schema and joining the
\* fields with the column delimiter and the rows with the row delimiter gives
\* the text back (here even allowing for the terminator of the last row).
C6_RoundTrip ==
    (ParsedAll /\ ~HasQuotes(csvStr) /\ SniffedSchema) =>
        LET back == RefRejoin(Delivered, schema.cols.delim, schema.rows.delim)
        IN  csvStr \in {back, back \o schema.rows.delim}

\* the characters of the header line: those before the first line terminator
HeaderChars == {csvStr[i] : i \in {k \in 1..Len(csvStr) : \A m \in 1..k : csvStr[m] \notin {LF, CR}}}

Candidates == {tab, pipe, semi, comma}

\* C7: with none of tab, pipe, semicolon, comma in the header line schema()
\* fails with an error: it never returns a schema.
C7_SniffFailure ==
    (spc # "parse" /\ HeaderChars # {} /\ HeaderChars \cap Candidates = {}) => spc # "returned"

\* the place of a candidate in the order tab, pipe, semicolon, comma
Rank(d) == CASE d = tab -> 1 [] d = pipe -> 2 [] d = semi -> 3 [] d = comma -> 4

\* C8: the sniffed column delimiter is the first of tab, pipe, semicolon,
\* comma that the header line holds, whatever else the text holds; quoting is
\* on if and only if the text holds a quote character.
C8_DelimiterPriority ==
    spc \in {"probing", "returned", "threw"} =>
        /\ HeaderChars \cap Candidates # {} =>
              /\ schema.cols.delim \in HeaderChars \cap Candidates
              /\ \A d \in HeaderChars \cap Candidates : Rank(schema.cols.delim) <= Rank(d)
        /\ schema.quote = quote <=> (\E i \in 1..Len(csvStr) : csvStr[i] = quote)
        /\ QuoteFree(env) <=> ~(\E i \in 1..Len(csvStr) : csvStr[i] = quote)

\* schema() returned a schema whose delimiter is neither the first candidate
\* of the header line by position nor its most frequent one, on a quoted text
C8_Witness ==
    /\ spc = "returned"
    /\ schema.cols.delim = semi
    /\ csvStr[1] = comma
    /\ Cardinality({i \in 1..Len(csvStr) : csvStr[i] = comma}) = 2
    /\ schema.quote = quote

\* the sampled values of column i (0-based): the written slots at i of the
\* rows behind the header row
SampledValues(i) ==
    LET rs == Tail(Pushed(ps.calls))
    IN  {rs[k][i + 1] : k \in {m \in 1..Len(rs) : i < Len(rs[m]) /\ rs[m][i + 1] # Hole}}

\* a sampled value that is plainly a number or plainly not one: digits and
\* letters only, and not empty
Plain(val) == val # <<>> /\ \A k \in 1..Len(val) : val[k] \in Digits \cup {"a"}

\* C9: after schema() a column's type is number if every sampled value of
\* the column is a number, and string if one is not (here for the columns
\* whose sampled values are all plain, at least one of them).
C9_TypeInference ==
    spc = "returned" =>
        \A i \in 0..(Len(schema.cols.names) - 1) :
            (SampledValues(i) # {} /\ \A val \in SampledValues(i) : Plain(val)) =>
                (schema.cols.types[i + 1] = "n" <=> \A val \in SampledValues(i) : ~IsNaN(val))

\* C10: after schema() the column names are the fields of the first probed
\* row, in order, and there are as many column types as column names.
C10_ColumnNames ==
    spc = "returned" =>
        /\ schema.cols.names = ObjectValues(Head(Pushed(ps.calls)))
        /\ Len(schema.cols.types) = Len(schema.cols.names)

\* every row the running parse() pushed so far: the delivered ones and those
\* of the chunk being filled
AllPushed == Pushed(ps.calls) \o ps.rows

\* C12: every row pushed into a chunk has exactly numCols slots, on the
\* quote-free path, the state-machine path and in probe mode.
C12_RowWidth ==
    spc = "parse" => \A i \in 1..Len(AllPushed) : Len(AllPushed[i]) = env.numCols

\* C14: when the text ends inside a quoted field (the opening quote at
\* qStart has no closing quote), parse() does not go back behind the opening
\* quote, does not hang or throw, and closes the field at the end of the
\* text with everything behind the opening quote, delivered in the last row.
C14_UnterminatedQuote ==
    (spc = "parse" /\ ~QuoteFree(env) /\ ps.qStart >= 0 /\ RefClose(csvStr, ps.qStart + 1) = -1) =>
        /\ ps.pc \notin {"hang", "threw"}
        /\ ps.pos > ps.qStart
        /\ ps.pc = "done" =>
              /\ ps.lastField.val = RefUnescape(csvStr, ps.qStart + 1, Len(csvStr))
              /\ Delivered # <<>>
              /\ \E k \in 1..Len(Delivered[Len(Delivered)]) :
                    Delivered[Len(Delivered)][k] = ps.lastField.val

\* a field holds a column or row delimiter
HoldsDelimiter(f) == \E k \in 1..Len(f) : f[k] = schema.cols.delim \/ StartsAt(f, schema.rows.delim, k - 1)

\* C15: on the state-machine path outside probe mode, on a text without
\* quotes, whatever the number of fields of the source rows: no error, no
\* pushed row is wider than numCols (overflow fields are dropped), and no
\* field holds a delimiter (text of a neighbouring field or row).
C15_ColumnMismatch ==
    (spc = "parse" /\ ~QuoteFree(env) /\ ~env.probe /\ ~HasQuotes(csvStr)) =>
        /\ ps.pc \notin {"hang", "threw"}
        /\ \A i \in 1..Len(AllPushed) :
              /\ Len(AllPushed[i]) <= env.numCols
              /\ \A k \in 1..Len(AllPushed[i]) :
                    AllPushed[i][k] # Hole => ~HoldsDelimiter(AllPushed[i][k])

\* C17: every chunk the callback gets holds at least one and at most
\* chunkSize rows, and only the last chunk of a parse() that returned may
\* hold fewer than chunkSize.
C17_ChunkBound ==
    \A i \in 1..Len(ps.calls) :
        LET n == Len(ps.calls[i].rows)
        IN  /\ 1 <= n
            /\ n <= env.chunkSize
            /\ n < env.chunkSize => (i = Len(ps.calls) /\ ps.pc = "done")

\* parse() returned after a full chunk and a final partial one
C17_Witness ==
    /\ spc = "parse"
    /\ build = "dist"
    /\ ps.pc = "done"
    /\ Len(ps.calls) >= 2
    /\ Len(ps.calls[1].rows) = chunkSize
    /\ chunkSize > 1
    /\ Len(ps.calls[Len(ps.calls)].rows) < chunkSize

\* C18: storage is not shared: a pushed row's array holds what it held when
\* it was pushed, a chunk's array holds the rows it held when the callback
\* got it, and no array is used for two rows or two chunks.
C18_Retention ==
    /\ \A i \in 1..Len(ps.calls) :
          LET call == ps.calls[i]
              held == ps.chunkHeap[call.ref]
          IN  /\ Len(held) = Len(call.rows)
              /\ \A k \in 1..Len(held) : ps.rowHeap[held[k]] = call.rows[k]
    /\ LET held == ps.chunkHeap[ps.rowsId]
       IN  ps.pc # "done" =>
              /\ Len(held) = Len(ps.rows)
              /\ \A k \in 1..Len(held) : ps.rowHeap[held[k]] = ps.rows[k]
    /\ \A i, j \in 1..Len(ps.calls) : i # j => ps.calls[i].ref # ps.calls[j].ref
    /\ \A i, j \in 1..Len(ps.chunkHeap) : \A k \in 1..Len(ps.chunkHeap[i]), m \in 1..Len(ps.chunkHeap[j]) :
          (i # j \/ k # m) => ps.chunkHeap[i][k] # ps.chunkHeap[j][m]

\* the state-machine path delivered two chunks and went on to a third row
C18_Witness ==
    /\ spc = "parse"
    /\ ~QuoteFree(env)
    /\ Len(ps.calls) >= 2
    /\ Len(ps.rowHeap) >= 3
    /\ \E k \in 1..Len(ps.calls[1].rows[1]) : ps.calls[1].rows[1][k] \notin {Hole, <<>>}

\* the quote-free path run to its end on the arguments of the running parse()
RECURSIVE FastRun(_, _)
FastRun(e, st) ==
    IF st.pc # "fast" THEN st
    ELSE IF IndexOf(e.csvStr, e.rowDelim, st.pos) > -1 THEN FastRun(e, FastIter(e, st))
    ELSE FastEnd(e, st)

FastOf ==
    LET e == ParseEnv(build, csvStr, [schema EXCEPT !.quote = NoQuote(build)],
                      chunkSize, chunkLimit, maxCols, limit)
    IN  FastRun(e, ParseInit(e))

\* the chunks of a log of callbacks
Chunks(calls) == [i \in 1..Len(calls) |-> calls[i].rows]

\* C20: on a text without quote character, the state-machine path delivers
\* the chunks the quote-free path delivers for the same delimiters, column
\* count and chunk size.
C20_PathEquivalence ==
    (ParsedAll /\ ~QuoteFree(env) /\ ~HasQuotes(csvStr) /\ csvStr # <<>>) =>
        Chunks(ps.calls) = Chunks(FastOf.calls)

\* one more iteration of a loop of a caller's parse() of a text that is not empty
LoopStep == spc = "parse" /\ csvStr # <<>> /\ ps.pc \in {"fast", "scan"} /\ ps'.iter = ps.iter + 1

\* C13: parse() without limit, with a schema that schema() made for the
\* text, advances its scan position in every iteration of its loop (so the
\* loop ends, the text being finite) and never enters a loop it cannot leave.
C13_SinglePass == [][LoopStep => (ps'.pos > ps.pos /\ ps'.pc # "hang")]_vars

\* the line terminator sequence behind the first line of the text
RefTerminator ==
    LET k == Len(FirstRowStr(csvStr))
    IN  IF StartsAt(csvStr, <<CR, LF>>, k) THEN <<CR, LF>>
        ELSE IF StartsAt(csvStr, <<LF>>, k) THEN <<LF>>
        ELSE <<>>

\* C16: the row delimiter schema() chooses is empty, "\n" or "\r\n", and is
\* the line terminator sequence that follows the first line of the text.
C16_RowDelimiter ==
    spc \in {"probing", "returned", "threw"} =>
        /\ schema.rows.delim \in {<<>>, <<LF>>, <<CR, LF>>}
        /\ schema.rows.delim = RefTerminator
        /\ env.rowDelim = schema.rows.delim

\* the value the routine's output holds for column ci of row i
OutAt(i, ci) == IF ty.objs THEN ty.out[i][ty.cols[ci + 1]] ELSE CellAt(ty.out[i], ci)

\* column ci can be told from the output: in record mode a column whose
\* name a later column has too is overwritten by that column
Observable(ci) == ty.objs => \A cj \in (ci + 1)..(Len(ty.cols) - 1) : ty.cols[cj + 1] # ty.cols[ci + 1]

\* C11: in both output modes, whatever the column's conversion: an empty or
\* unset raw field becomes undefined, the raw text null becomes null, and
\* every other raw field gets the conversion of its column (unchanged for
\* string, a number for number, a boolean for boolean, a date for date).
C11_NullHandling ==
    (spc = "typed" /\ ty.pc = "applied") =>
        \A i \in 1..Len(ty.raw), ci \in 0..(Len(ty.cols) - 1) :
            LET raw == CellAt(ty.raw[i], ci)
                kind == ty.kinds[ci + 1]
            IN  Observable(ci) =>
                   /\ raw \in {Str(<<>>), HoleCell} => OutAt(i, ci) = TUndefined
                   /\ raw = Str(S_null) => OutAt(i, ci) = TNull
                   /\ raw \notin {Str(<<>>), HoleCell, Str(S_null)} =>
                         /\ OutAt(i, ci) \notin {TUndefined, TNull}
                         /\ kind = "string" => OutAt(i, ci) = raw
                         /\ kind \in {"number", "boolean", "date"} => OutAt(i, ci).t = kind
                         /\ kind = "number" /\ raw = Str(<<"1">>) => OutAt(i, ci) = Cell("number", <<"1">>)
                         /\ kind = "boolean" /\ raw = Str(<<"T", "R", "U", "E">>) => OutAt(i, ci) = TBool(TRUE)

\* the raw fields of the converted chunk
RawFields == {CellAt(ty.raw[i], ci) : i \in 1..Len(ty.raw), ci \in 0..(Len(ty.cols) - 1)}

\* a chunk with an unset, an empty, a null and a numeric field was
\* converted to records with a number column
C11_Witness ==
    /\ spc = "typed"
    /\ ty.pc = "applied"
    /\ ty.objs
    /\ \A ci \in 0..(Len(ty.cols) - 1) : Observable(ci)
    /\ {HoleCell, Str(<<>>), Str(S_null), Str(<<"1">>)} \subseteq RawFields
    /\ \E k \in 1..Len(ty.kinds) : ty.kinds[k] = "number"

\* a row as reading its slots shows it: an unset slot reads as undefined
AsRead(r) == [k \in 1..Len(r) |-> IF r[k] = HoleCell THEN TUndefined ELSE r[k]]

\* C19: the routine returns one output for each row of the chunk, in
\* order, positional with the value of column ci at index ci, record with
\* the column names as keys, and the rows of the chunk read as before.
C19_OutputShape ==
    (spc = "typed" /\ ty.pc = "applied") =>
        /\ Len(ty.out) = Len(ty.raw)
        /\ \A i \in 1..Len(ty.raw) :
              /\ ty.objs => DOMAIN ty.out[i] = {ty.cols[k] : k \in 1..Len(ty.cols)}
              /\ ~ty.objs => Len(ty.out[i]) >= Len(ty.cols)
              /\ \A ci \in 0..(Len(ty.cols) - 1) :
                    Observable(ci) => OutAt(i, ci) = Coerce(ty.kinds[ci + 1], CellAt(ty.raw[i], ci))
              /\ AsRead(ty.rows[i]) = AsRead(ty.raw[i])

====
